---------------------------- MODULE Spec2Model ----------------------------
(***************************************************************************)
(* Adaptive Learning Companion: the Mastery Store behind                   *)
(* update_student_progress and get_student_progress, the Knowledge Index   *)
(* behind retrieve_content (src/tools.py), the chunker of the ingestion    *)
(* pipeline (src/ingest_data.py) and the ReAct agent loop (src/graph.py).  *)
(*                                                                         *)
(* Reals are modelled as exact fractions <<numerator, denominator>> in     *)
(* lowest terms, so "equal" below is the spec's "equal within              *)
(* floating-point tolerance".  Strings that the code slices, lowers or     *)
(* concatenates are sequences of one-character strings.                    *)
(***************************************************************************)
EXTENDS Integers, Sequences, FiniteSets, TLC

(***************************************************************************)
(* Bounds of the model.                                                    *)
(***************************************************************************)
\* update_student_progress calls made in one behaviour
MaxCalls == 3
\* last value of the wall clock (datetime.now() has a finite resolution)
MaxClock == 2

(***************************************************************************)
(* Exact fractions.                                                        *)
(***************************************************************************)
RECURSIVE GCD(_, _)
GCD(a, b) == IF b = 0 THEN a ELSE GCD(b, a % b)

RNorm(n, d) == LET g == GCD(n, d) IN <<n \div g, d \div g>>

RAdd(a, b) == RNorm(a[1] * b[2] + b[1] * a[2], a[2] * b[2])

RMulInt(a, k) == RNorm(a[1] * k, a[2])

RDivInt(a, k) == RNorm(a[1], a[2] * k)

\* a >= b (denominators are positive)
RGeq(a, b) == a[1] * b[2] >= b[1] * a[2]

RECURSIVE SumSeq(_)
SumSeq(s) == IF s = <<>> THEN <<0, 1>> ELSE RAdd(Head(s), SumSeq(Tail(s)))

\* arithmetic mean of a non-empty sequence of fractions
Mean(s) == RDivInt(SumSeq(s), Len(s))

(***************************************************************************)
(* Inputs of the tool layer.                                               *)
(***************************************************************************)
\* the (student_id, topic) arguments of the calls: student "a" with topic "b_c", also
\* spelled "B c", and student "a_b" with topic "c"
Arguments ==
    { << <<"a">>, <<"b", "_", "c">> >>,
      << <<"a">>, <<"B", " ", "c">> >>,
      << <<"a", "_", "b">>, <<"c">> >> }

\* scores 0.0, 0.6 and 1.0
Scores == { <<0, 1>>, <<3, 5>>, <<1, 1>> }

\* the scores of the concurrent calls: 0.6 and 1.0
PoolScores == { <<3, 5>>, <<1, 1>> }

\* the scores a caller of the tool may pass: -0.1, 0.0, 0.6, 0.7, 1.0 and 1.5
ToolScores == { <<-1, 10>>, <<0, 1>>, <<3, 5>>, <<7, 10>>, <<1, 1>>, <<3, 2>> }

\* no constraint on the score
valid_score_any(score) == TRUE

\* score: float = Field(ge=0.0, le=1.0)
valid_score(score) == RGeq(score, <<0, 1>>) /\ RGeq(<<1, 1>>, score)

\* the worker threads that run tool calls (ToolNode runs the tool calls of one
\* planner response in a thread pool)
Threads == {1, 2}

\* str.lower() on one character
lower(c) == CASE c = "B" -> "b" [] c = "C" -> "c" [] c = "A" -> "a" [] OTHER -> c

\* the topic as it was given
topic_key_raw(topic) == topic

\* topic.lower().replace(" ", "_")
topic_key(topic) ==
    [i \in 1..Len(topic) |-> IF lower(topic[i]) = " " THEN "_" ELSE lower(topic[i])]

\* f"{student_id}_{topic_key}_{now}"
session_id(student_id, tkey, now) == student_id \o <<"_">> \o tkey \o <<"_">> \o <<now>>

Keys == { <<a[1], topic_key(a[2])>> : a \in Arguments }

(***************************************************************************)
(* State.                                                                  *)
(***************************************************************************)
VARIABLES
    clock,        \* the value datetime.now() returns
    progress,     \* committed table student_progress: key -> row
    sessions,     \* committed table study_sessions: set of rows
    lock,         \* the thread whose connection holds SQLite's write lock, 0 if none
    call,         \* per thread: the tool call it is running, or the value its last one returned
    ncalls,       \* calls started so far
    submitted,    \* history: per key, the scores of the calls made, in call order
    returned,     \* history: per key, the scores of the calls that returned
    upserts       \* history: the writes of student_progress that readers can see

storeVars == <<clock, progress, sessions, lock, call, ncalls, submitted, returned, upserts>>

VARIABLES
    cli,                  \* run_agent: "prompt", "invoking", "exited" or "crashed"
    conversation_history, \* run_agent's list of messages
    messages,             \* the graph state's channel "messages" during app.invoke
    node,                 \* the node the graph runs next: "agent", "tools" or "end"
    steps,                \* nodes the graph has run in this invocation
    tool_outputs,         \* the tool node's results so far, one slot per tool request
    planner_input,        \* the argument of the latest llm.invoke
    planner_calls,        \* llm.invoke calls so far
    exc,                  \* the exception that left app.invoke, "none" if none
    next_id,              \* identifiers handed out so far
    inputs,               \* external inputs accepted so far
    failed_tools          \* history: the tool requests whose tool raised

agentVars == <<cli, conversation_history, messages, node, steps, tool_outputs, planner_input,
               planner_calls, exc, next_id, inputs, failed_tools>>

VARIABLES
    collection,   \* the Knowledge Index: doc_id -> the metadata of the chunk stored under it
    retrieval     \* the latest retrieve_content call: its queries and what it returned

kbVars == <<collection, retrieval>>

VARIABLES
    document,     \* the document that is being ingested: the latest input of semantic_chunk
    chunks,       \* what semantic_chunk returned for it, with its metadata once enriched
    runs          \* history: the runs of ingest that have ended

ingestVars == <<document, chunks, runs>>

vars == <<storeVars, agentVars, kbVars, ingestVars>>

\* a thread that runs no call
IdleCall ==
    [pc |-> "idle", student_id |-> <<>>, topic_key |-> <<>>, score |-> <<0, 1>>, now |-> 0,
     session_id |-> <<>>, existing |-> <<>>, pending_progress |-> <<>>,
     pending_sessions |-> <<>>, error |-> "", result |-> <<>>]

StoreInit ==
    /\ clock = 0
    /\ progress = <<>>
    /\ sessions = {}
    /\ lock = 0
    /\ call = [t \in Threads |-> IdleCall]
    /\ ncalls = 0
    /\ submitted = [k \in Keys |-> <<>>]
    /\ returned = [k \in Keys |-> <<>>]
    /\ upserts = 0

\* the wall clock advances
Tick ==
    /\ clock < MaxClock
    /\ clock' = clock + 1
    /\ UNCHANGED <<progress, sessions, lock, call, ncalls, submitted, returned, upserts,
                   agentVars, kbVars, ingestVars>>

\* new_mastery = ((old_mastery * attempts) + score) / new_attempts
new_mastery(old_mastery, attempts, score) ==
    RDivInt(RAdd(RMulInt(old_mastery, attempts), score), attempts + 1)

\* update_student_progress, entry: the arguments are validated against the tool's
\* schema, a ValidationError leaves the tool before its body runs; then the key, the
\* timestamp, the session id and the connection
BeginUpdate(t, student_id, topic, score) ==
    /\ call[t].pc = "idle"
    /\ ncalls < MaxCalls
    /\ LET tkey == topic_key(topic)
           now == clock
       IN IF valid_score(score)
          THEN /\ call' = [call EXCEPT ![t] =
                       [IdleCall EXCEPT !.pc = "select", !.student_id = student_id,
                                        !.topic_key = tkey, !.score = score, !.now = now,
                                        !.session_id = session_id(student_id, tkey, now)]]
               /\ submitted' = [submitted EXCEPT ![<<student_id, tkey>>] = Append(@, score)]
          ELSE /\ call' = [call EXCEPT ![t] =
                       [IdleCall EXCEPT !.pc = "raised", !.student_id = student_id,
                                        !.score = score, !.error = "ValidationError"]]
               /\ UNCHANGED submitted
    /\ ncalls' = ncalls + 1
    /\ UNCHANGED <<clock, progress, sessions, lock, returned, upserts,
                   agentVars, kbVars, ingestVars>>

\* SELECT mastery_score, attempts ... fetchone(): reads the committed table, outside
\* any write transaction
SelectExisting(t) ==
    /\ call[t].pc = "select"
    /\ LET k == <<call[t].student_id, call[t].topic_key>>
       IN call' = [call EXCEPT ![t].pc = "upsert",
                               ![t].existing =
                                   IF k \in DOMAIN progress
                                   THEN <<[mastery_score |-> progress[k].mastery_score,
                                           attempts |-> progress[k].attempts]>>
                                   ELSE <<>>]
    /\ UNCHANGED <<clock, progress, sessions, lock, ncalls, submitted, returned, upserts,
                   agentVars, kbVars, ingestVars>>

\* the row the UPDATE or the INSERT of student_progress writes
upsert_row(c) ==
    IF c.existing # <<>>
    THEN [mastery_score |-> new_mastery(c.existing[1].mastery_score,
                                        c.existing[1].attempts, c.score),
          attempts |-> c.existing[1].attempts + 1,
          last_studied |-> c.now]
    ELSE [mastery_score |-> c.score, attempts |-> 1, last_studied |-> c.now]

\* f"{x:.2f}": the number of hundredths nearest to x
format_2f(x) ==
    LET q == (100 * x[1]) \div x[2]
        r == (100 * x[1]) % x[2]
    IN IF 2 * r > x[2] \/ (2 * r = x[2] /\ q % 2 = 1) THEN q + 1 ELSE q

\* the threshold without its boundary
update_status_strict(mastery) ==
    IF RGeq(mastery, <<7, 10>>) /\ mastery # <<7, 10>>
    THEN "mastery achieved" ELSE "needs more practice"

\* status = "Mastery achieved!" if new_mastery >= 0.7 else "Needs more practice."
update_status(mastery) ==
    IF RGeq(mastery, <<7, 10>>) THEN "mastery achieved" ELSE "needs more practice"

\* the confirmation update_student_progress returns
confirmation(c) ==
    [tool |-> "update_student_progress",
     student_id |-> c.student_id,
     topic_key |-> c.topic_key,
     latest_score |-> format_2f(c.score),
     new_mastery |-> format_2f(upsert_row(c).mastery_score),
     new_attempts |-> upsert_row(c).attempts,
     status |-> update_status(upsert_row(c).mastery_score)]

\* the exception leaves the function: nothing is committed, the connection is still
\* open (with its lock, if it has one) until it is collected
Raise(t, error) ==
    call' = [call EXCEPT ![t].pc = "raised", ![t].error = error]

\* the table student_progress with the writes w applied
apply_progress(table, w) ==
    IF w = <<>> THEN table
    ELSE [k \in DOMAIN table \cup {w[1].key} |-> IF k = w[1].key THEN w[1].row ELSE table[k]]

\* the table study_sessions with the writes w applied
apply_sessions(table, w) == table \cup {w[i] : i \in 1..Len(w)}

\* the connection commits every statement by itself: the write of student_progress is
\* visible before the session row is inserted
Upsert_autocommit(t) ==
    /\ call[t].pc = "upsert"
    /\ lock = 0
    /\ LET c == call[t]
           k == <<c.student_id, c.topic_key>>
       IN IF c.existing = <<>> /\ k \in DOMAIN progress
          THEN /\ Raise(t, "IntegrityError")
               /\ UNCHANGED <<progress, upserts>>
          ELSE /\ call' = [call EXCEPT ![t].pc = "log"]
               /\ progress' = apply_progress(progress, <<[key |-> k, row |-> upsert_row(c)]>>)
               /\ upserts' = upserts + 1
    /\ UNCHANGED <<clock, sessions, lock, ncalls, submitted, returned,
                   agentVars, kbVars, ingestVars>>

\* UPDATE / INSERT of student_progress: opens the connection's implicit transaction
\* (SQLite's write lock) and writes into it; the INSERT of a key that is in the table
\* by now violates the PRIMARY KEY
Upsert(t) ==
    /\ call[t].pc = "upsert"
    /\ lock = 0
    /\ LET c == call[t]
           k == <<c.student_id, c.topic_key>>
       IN IF c.existing = <<>> /\ k \in DOMAIN progress
          THEN /\ Raise(t, "IntegrityError")
               /\ lock' = t
          ELSE /\ call' = [call EXCEPT ![t].pc = "log",
                                       ![t].pending_progress = <<[key |-> k, row |-> upsert_row(c)]>>]
               /\ lock' = t
    /\ UNCHANGED <<clock, progress, sessions, ncalls, submitted, returned, upserts,
                   agentVars, kbVars, ingestVars>>

\* the write lock is held by another connection for longer than the busy timeout:
\* sqlite3.OperationalError, database is locked
UpsertLocked(t) ==
    /\ call[t].pc = "upsert"
    /\ lock # 0
    /\ Raise(t, "OperationalError")
    /\ UNCHANGED <<clock, progress, sessions, lock, ncalls, submitted, returned, upserts,
                   agentVars, kbVars, ingestVars>>

\* INSERT INTO study_sessions, in the same transaction; session_id is the PRIMARY KEY
LogSession(t) ==
    /\ call[t].pc = "log"
    /\ LET c == call[t]
       IN IF \E r \in sessions : r.session_id = c.session_id
          THEN Raise(t, "IntegrityError")
          ELSE call' = [call EXCEPT ![t].pc = "commit",
                                    ![t].pending_sessions =
                                        <<[session_id |-> c.session_id,
                                           student_id |-> c.student_id,
                                           topic |-> c.topic_key,
                                           score |-> c.score,
                                           timestamp |-> c.now]>>]
    /\ UNCHANGED <<clock, progress, sessions, lock, ncalls, submitted, returned, upserts,
                   agentVars, kbVars, ingestVars>>

\* conn.commit(); conn.close(); return: the transaction's writes become visible
\* together and the lock is released
Commit(t) ==
    /\ call[t].pc = "commit"
    /\ LET c == call[t]
       IN /\ progress' = apply_progress(progress, c.pending_progress)
          /\ sessions' = apply_sessions(sessions, c.pending_sessions)
          /\ upserts' = upserts + Len(c.pending_progress)
          /\ returned' = [returned EXCEPT ![<<c.student_id, c.topic_key>>] = Append(@, c.score)]
    /\ lock' = 0
    /\ call' = [call EXCEPT ![t] = [IdleCall EXCEPT !.result = <<confirmation(call[t])>>]]
    /\ UNCHANGED <<clock, ncalls, submitted, agentVars, kbVars, ingestVars>>

\* the exception has left the call; the connection of a call that raised is collected:
\* its open transaction is rolled back and its lock released
Abandon(t) ==
    /\ call[t].pc = "raised"
    /\ lock' = IF lock = t THEN 0 ELSE lock
    /\ call' = [call EXCEPT ![t] = IdleCall]
    /\ UNCHANGED <<clock, progress, sessions, ncalls, submitted, returned, upserts,
                   agentVars, kbVars, ingestVars>>

\* the row is created when it is missing
get_student_progress_create(t, student_id, topic) ==
    /\ call[t].pc = "idle"
    /\ LET k == <<student_id, topic_key(topic)>>
       IN /\ progress' = IF k \in DOMAIN progress THEN progress
                          ELSE apply_progress(progress,
                                   <<[key |-> k,
                                      row |-> [mastery_score |-> <<0, 1>>, attempts |-> 0,
                                               last_studied |-> clock]]>>)
          /\ call' = [call EXCEPT ![t] =
                 [IdleCall EXCEPT !.result =
                     <<[tool |-> "get_student_progress", student_id |-> student_id,
                        topic |-> topic, topic_key |-> k[2], found |-> k \in DOMAIN progress,
                        mastery |-> 0, attempts |-> 0, status |-> "new topic"]>>]]
    /\ UNCHANGED <<clock, sessions, lock, ncalls, submitted, returned, upserts,
                   agentVars, kbVars, ingestVars>>

\* the text get_student_progress returns for the row it read, None if there is none
progress_report(student_id, topic, tkey, row) ==
    IF row = <<>>
    THEN [tool |-> "get_student_progress", student_id |-> student_id, topic |-> topic,
          topic_key |-> tkey, found |-> FALSE, mastery |-> 0, attempts |-> 0,
          status |-> "new topic"]
    ELSE [tool |-> "get_student_progress", student_id |-> student_id, topic |-> topic,
          topic_key |-> tkey, found |-> TRUE, mastery |-> format_2f(row[1].mastery_score),
          attempts |-> row[1].attempts,
          status |-> IF RGeq(row[1].mastery_score, <<7, 10>>) THEN "proficient"
                     ELSE "needs review"]

\* get_student_progress: one SELECT of the committed table, then the report
get_student_progress(t, student_id, topic) ==
    /\ call[t].pc = "idle"
    /\ LET k == <<student_id, topic_key(topic)>>
           row == IF k \in DOMAIN progress THEN <<progress[k]>> ELSE <<>>
       IN call' = [call EXCEPT ![t] =
              [IdleCall EXCEPT !.result = <<progress_report(student_id, topic, k[2], row)>>]]
    /\ UNCHANGED <<clock, progress, sessions, lock, ncalls, submitted, returned, upserts,
                   agentVars, kbVars, ingestVars>>

StoreStep(t, arguments, scores) ==
    \/ \E a \in arguments, sc \in scores : BeginUpdate(t, a[1], a[2], sc)
    \/ SelectExisting(t)
    \/ Upsert(t)
    \/ LogSession(t)
    \/ Commit(t)
    \/ Abandon(t)


\* calls one after another: a single thread of control
SeqNext ==
    \/ Tick
    \/ \E t \in {1} : StoreStep(t, Arguments, Scores)

\* the tools of the Mastery Store called one after another, with any score
ToolsNext ==
    \/ Tick
    \/ \E t \in {1} :
           \/ StoreStep(t, Arguments, ToolScores)
           \/ \E a \in Arguments : get_student_progress(t, a[1], a[2])

\* calls from the pool's threads, interleaved statement by statement
StoreNext ==
    \/ Tick
    \/ \E t \in Threads : StoreStep(t, Arguments, PoolScores) \/ UpsertLocked(t)

(***************************************************************************)
(* The Knowledge Index and retrieve_content (src/tools.py).                *)
(***************************************************************************)
\* chunks the Knowledge Index can hold
MaxEntries == 2

DocIds == 1..MaxEntries

\* the topics of ingestion runs and of queries, as their callers spell them
KBTopics == { <<"B", " ", "c">>, <<"b", "_", "c">>, <<"c">> }

ContentTypes == {"explanation", "practice"}

Difficulties == {"beginner", "advanced"}

\* n_results: a positive number of chunks
NResults == {1, 2}

\* the searchable tags build_metadata attaches to a chunk
Metadatas ==
    [topic : {topic_key(topic) : topic \in KBTopics}, difficulty : Difficulties,
     content_type : ContentTypes]

KBInit ==
    /\ collection = {}
    /\ retrieval = <<>>

\* collection.add of one chunk; an id that is in the index is not added again
collection_add(doc_id, metadata) ==
    /\ collection' = IF \E e \in collection : e.doc_id = doc_id THEN collection
                     ELSE collection \cup {[doc_id |-> doc_id, metadata |-> metadata]}
    /\ UNCHANGED <<retrieval, storeVars, agentVars, ingestVars>>

\* the filter looks at the topic only
where_matches_topic(e, where) == e.metadata.topic = where.topic

\* where = {"$and": [{"topic": {"$eq": ...}}, {"content_type": {"$eq": ...}},
\*                   {"difficulty": {"$eq": ...}}]}
where_matches(e, where) ==
    /\ e.metadata.topic = where.topic
    /\ e.metadata.content_type = where.content_type
    /\ e.metadata.difficulty = where.difficulty

\* collection.query: the n_results nearest of the candidates, all of them if there are
\* fewer; which ones are nearest is the embedding's matter
query(candidates, n_results) ==
    {S \in SUBSET candidates :
        Cardinality(S) = IF n_results < Cardinality(candidates) THEN n_results
                         ELSE Cardinality(candidates)}

\* retrieve_content: the filtered query, the unfiltered one if it returned nothing,
\* then the chunks found or the "No content found" text
retrieve_content(topic, content_type, difficulty, n_results) ==
    /\ LET where == [topic |-> topic_key(topic), content_type |-> content_type,
                     difficulty |-> difficulty]
           args == [topic |-> topic, content_type |-> content_type,
                    difficulty |-> difficulty, n_results |-> n_results]
       IN \E F \in query({e \in collection : where_matches(e, where)}, n_results) :
              IF F # {}
              THEN retrieval' = <<[args |-> args, filtered |-> <<F>>, fallback |-> <<>>,
                                   result |-> [kind |-> "chunks", docs |-> F]]>>
              ELSE \E G \in query(collection, n_results) :
                       retrieval' =
                           <<[args |-> args, filtered |-> <<F>>, fallback |-> <<G>>,
                              result |-> IF G = {}
                                         THEN [kind |-> "No content found", docs |-> {}]
                                         ELSE [kind |-> "chunks", docs |-> G]]>>
    /\ UNCHANGED <<collection, storeVars, agentVars, ingestVars>>

\* ingestion fills the Knowledge Index, the agent's tool queries it
KBNext ==
    \/ \E doc_id \in DocIds, metadata \in Metadatas : collection_add(doc_id, metadata)
    \/ \E topic \in KBTopics, content_type \in ContentTypes, difficulty \in Difficulties,
          n_results \in NResults :
           retrieve_content(topic, content_type, difficulty, n_results)

(***************************************************************************)
(* Chunking (src/ingest_data.py).  A text is a sequence of characters and  *)
(* of page markers, each marker one element.                               *)
(***************************************************************************)
\* elements (page markers and paragraphs) of a document
MaxItems == 4
\* characters of a paragraph
MaxParaLen == 4

\* semantic_chunk's defaults
max_chunk_size_default == 1000
overlap_default == 150

\* the values of max_chunk_size and overlap the small documents are chunked with
ChunkSizes == {3, 6}
Overlaps == {1, 3}

PageMarkers == <<"[PAGE_1]", "[PAGE_2]", "[PAGE_3]", "[PAGE_4]", "[PAGE_5]">>

Letters == <<"a", "b", "c", "d", "e">>

Whitespace == {" ", "\n"}

\* the shape of a document: per element 0 for a page marker, n > 0 for a paragraph of
\* n characters, -3 for the paragraph "x x"
Shapes == (0..MaxParaLen) \cup {-3}

\* the documents: extraction starts every page with its marker
Documents ==
    {d \in UNION {[1..n -> Shapes] : n \in 1..MaxItems} : d[1] = 0}
        \cup { <<0, 1200, 0, 50>> }

\* the paragraph of element i of document d
paragraph_of(d, i) ==
    IF d[i] = -3 THEN <<Letters[i], " ", Letters[i]>> ELSE [j \in 1..d[i] |-> Letters[i]]

\* the page element i of document d is on: the number of markers up to it
page_of(d, i) == Cardinality({j \in 1..i : d[j] = 0})

\* text.strip()
strip(text) ==
    IF \A i \in 1..Len(text) : text[i] \in Whitespace THEN <<>>
    ELSE SubSeq(text,
                CHOOSE i \in 1..Len(text) :
                    text[i] \notin Whitespace /\ \A j \in 1..(i - 1) : text[j] \in Whitespace,
                CHOOSE i \in 1..Len(text) :
                    text[i] \notin Whitespace
                        /\ \A j \in (i + 1)..Len(text) : text[j] \in Whitespace)

\* the text extract_text_from_pdf and clean_text make of document d:
\* "[PAGE_n]\n" before a page's text, paragraphs ended by a blank line, stripped
RECURSIVE render_from(_, _)
render_from(d, i) ==
    IF i > Len(d) THEN <<>>
    ELSE (IF d[i] = 0 THEN <<PageMarkers[page_of(d, i)], "\n">>
          ELSE paragraph_of(d, i) \o <<"\n", "\n">>) \o render_from(d, i + 1)

render(d) == strip(render_from(d, 1))

\* int(page_match.group(1))
page_number(marker) == CHOOSE n \in 1..Len(PageMarkers) : PageMarkers[n] = marker

is_marker(c) == \E n \in 1..Len(PageMarkers) : PageMarkers[n] = c

\* the line feeds directly before position i
newlines_before(text, i) ==
    i - 1 - (CHOOSE j \in 0..(i - 1) :
                 /\ j = 0 \/ text[j] # "\n"
                 /\ \A k \in (j + 1)..(i - 1) : text[k] = "\n")

\* position i starts a separator "\n\n" of split: matches are taken from the left and
\* do not overlap
is_break(text, i) ==
    /\ i < Len(text)
    /\ text[i] = "\n"
    /\ text[i + 1] = "\n"
    /\ newlines_before(text, i) % 2 = 0

\* re.split on the page markers, then split('\n\n') of every segment: the markers and
\* the pieces between markers and separators, in text order
segments(text) ==
    LET C == {i \in 1..Len(text) : is_marker(text[i]) \/ is_break(text, i)}
        k == Cardinality(C)
        cut == [j \in 1..k |-> CHOOSE p \in C : Cardinality({q \in C : q < p}) = j - 1]
        width(p) == IF is_marker(text[p]) THEN 1 ELSE 2
        start(j) == IF j = 1 THEN 1 ELSE cut[j - 1] + width(cut[j - 1])
        stop(j) == IF j = k + 1 THEN Len(text) ELSE cut[j] - 1
    IN [n \in 1..(2 * k + 1) |->
           IF n % 2 = 1
           THEN [page |-> 0, para |-> SubSeq(text, start((n + 1) \div 2), stop((n + 1) \div 2))]
           ELSE [page |-> IF is_marker(text[cut[n \div 2]])
                          THEN page_number(text[cut[n \div 2]]) ELSE 0,
                 para |-> <<>>]]

\* current_chunk[-overlap:] if len(current_chunk) > overlap else current_chunk
overlap_text(current_chunk, overlap) ==
    IF Len(current_chunk) > overlap /\ overlap # 0
    THEN SubSeq(current_chunk, Len(current_chunk) - overlap + 1, Len(current_chunk))
    ELSE current_chunk

\* chunks.append({'text': current_chunk.strip(), 'chunk_index': idx, 'start_page': ...})
sealed(st) ==
    [st EXCEPT !.chunks = Append(@, [text |-> strip(st.current_chunk),
                                     chunk_index |-> st.idx,
                                     start_page |-> st.chunk_start_page]),
               !.idx = @ + 1]

\* the body of the loops for one segment
chunk_step(st, seg, max_chunk_size, overlap) ==
    LET para == strip(seg.para)
    IN IF seg.page # 0 THEN [st EXCEPT !.current_page = seg.page]
       ELSE IF para = <<>> THEN st
       ELSE IF Len(st.current_chunk) + Len(para) <= max_chunk_size
       THEN [st EXCEPT !.chunk_start_page =
                           IF st.current_chunk = <<>> THEN st.current_page ELSE @,
                       !.current_chunk = @ \o para \o <<"\n", "\n">>]
       ELSE LET st2 == IF st.current_chunk # <<>> THEN sealed(st) ELSE st
            IN [st2 EXCEPT !.current_chunk =
                               overlap_text(st.current_chunk, overlap) \o para
                                   \o <<"\n", "\n">>,
                           !.chunk_start_page = st.current_page]

RECURSIVE chunk_loop(_, _, _, _, _)
chunk_loop(st, segs, i, max_chunk_size, overlap) ==
    IF i > Len(segs) THEN st
    ELSE chunk_loop(chunk_step(st, segs[i], max_chunk_size, overlap), segs, i + 1,
                    max_chunk_size, overlap)

\* the buffer left at the end of the input is dropped
final_chunk_dropped(st) == st.chunks

\* the final chunk: the buffer left at the end of the input, if it is not blank
final_chunk(st) == IF strip(st.current_chunk) # <<>> THEN sealed(st).chunks ELSE st.chunks

semantic_chunk(text, max_chunk_size, overlap) ==
    final_chunk(chunk_loop([chunks |-> <<>>, current_chunk |-> <<>>, current_page |-> 1,
                            chunk_start_page |-> 1, idx |-> 0],
                           segments(text), 1, max_chunk_size, overlap))

IngestInit ==
    /\ document = <<>>
    /\ chunks = <<>>
    /\ runs = <<>>

\* the text of document d is extracted and cleaned, to be chunked with the given
\* max_chunk_size and overlap
Clean(d, max_chunk_size, overlap) ==
    /\ document = <<>>
    /\ document' = <<[source |-> d, text |-> render(d), max_chunk_size |-> max_chunk_size,
                      overlap |-> overlap, stage |-> "cleaned"]>>
    /\ UNCHANGED <<chunks, runs, storeVars, agentVars, kbVars>>

\* chunks = semantic_chunk(clean)
Chunk ==
    /\ document # <<>>
    /\ document[1].stage = "cleaned"
    /\ chunks' = semantic_chunk(document[1].text, document[1].max_chunk_size,
                                document[1].overlap)
    /\ document' = <<[document[1] EXCEPT !.stage = "chunked"]>>
    /\ UNCHANGED <<runs, storeVars, agentVars, kbVars>>

ChunkNext ==
    \/ \E d \in Documents, max_chunk_size \in ChunkSizes, overlap \in Overlaps :
           Clean(d, max_chunk_size, overlap)
    \/ \E d \in Documents : Clean(d, max_chunk_size_default, overlap_default)
    \/ Chunk

(***************************************************************************)
(* The ingestion pipeline (src/ingest_data.py, ingest).  A word the        *)
(* content patterns look for is one element of a text.                     *)
(***************************************************************************)
\* ingestion runs in one behaviour
MaxRuns == 2

\* the calls of ingest: pdf_path, what page.extract_text() returns for the pages of
\* the PDF at that path, topic and difficulty
Ingestions ==
    { [pdf_path |-> <<"a">>, pages |-> <<>>,
       topic |-> <<"B", " ", "c">>, difficulty |-> "beginner"],
      [pdf_path |-> <<"a">>, pages |-> << <<" ">> >>,
       topic |-> <<"B", " ", "c">>, difficulty |-> "beginner"],
      [pdf_path |-> <<"a">>, pages |-> << <<"0", "_", "x">> >>,
       topic |-> <<"B", " ", "c">>, difficulty |-> "beginner"],
      [pdf_path |-> <<"a">>, pages |-> << <<"0", "_", "x">> >>,
       topic |-> <<"B", " ", "c">>, difficulty |-> "advanced"],
      [pdf_path |-> <<"a", "_", "0">>, pages |-> << <<>>, <<"x">> >>,
       topic |-> <<"B", " ", "c">>, difficulty |-> "beginner"],
      [pdf_path |-> <<"a">>, pages |-> << <<"QUIZ", " ", "prerequisite">> >>,
       topic |-> <<"c">>, difficulty |-> "beginner"],
      [pdf_path |-> <<"a">>, pages |-> << <<"before", " ", "x", " ", "study">> >>,
       topic |-> <<"c">>, difficulty |-> "advanced"],
      [pdf_path |-> <<"a">>, pages |-> << <<"before", "\n", "study">> >>,
       topic |-> <<"c">>, difficulty |-> "advanced"],
      [pdf_path |-> <<"a">>, pages |-> << <<"question", " ", "1">>, <<"x">> >>,
       topic |-> <<"c">>, difficulty |-> "beginner"] }

\* a path that holds no PDF
NoPdf == [pdf_path |-> <<"b">>, topic |-> <<"c">>, difficulty |-> "beginner"]

Digits == <<"0", "1", "2", "3", "4", "5", "6", "7", "8", "9">>

\* str(n) of a number below ten
str(n) == <<Digits[n + 1]>>

\* extract_text_from_pdf: a page without text is skipped, the others are tagged
RECURSIVE extract_from(_, _)
extract_from(pages, page_num) ==
    IF page_num > Len(pages) THEN <<>>
    ELSE (IF pages[page_num] # <<>>
          THEN <<"\n", "\n", PageMarkers[page_num], "\n">> \o pages[page_num]
          ELSE <<>>) \o extract_from(pages, page_num + 1)

extract_text_from_pdf(pages) == extract_from(pages, 1)

\* clean_text: none of its noise patterns occurs in the texts of Pdfs, whose white
\* space is single blanks and line feeds in runs of at most two; what is left of it is
\* the strip it ends with
clean_text(text) == strip(text)

\* re.I on one element
casefold(w) == IF w = "QUIZ" THEN "quiz" ELSE lower(w)

\* some later element of the line of element i is the word w ('.' matches no line feed)
later_on_line(text, i, w) ==
    \E j \in (i + 1)..Len(text) :
        /\ casefold(text[j]) = w
        /\ \A k \in (i + 1)..(j - 1) : text[k] # "\n"

\* element i is followed by a blank and a digit
numbered(text, i) ==
    /\ i + 2 <= Len(text)
    /\ text[i + 1] = " "
    /\ \E n \in 1..Len(Digits) : Digits[n] = text[i + 2]

\* re.search(r'exercise|problem|question \d+|quiz|task \d+', chunk_text, re.I)
practice_pattern(chunk_text) ==
    \E i \in 1..Len(chunk_text) :
        \/ casefold(chunk_text[i]) \in {"exercise", "problem", "quiz"}
        \/ casefold(chunk_text[i]) \in {"question", "task"} /\ numbered(chunk_text, i)

\* re.search(r'prerequisite|before.*study|prior knowledge|required.*understand',
\*           chunk_text, re.I)
prerequisite_pattern(chunk_text) ==
    \E i \in 1..Len(chunk_text) :
        \/ casefold(chunk_text[i]) = "prerequisite"
        \/ casefold(chunk_text[i]) = "before" /\ later_on_line(chunk_text, i, "study")
        \/ /\ casefold(chunk_text[i]) = "prior"
           /\ i + 2 <= Len(chunk_text)
           /\ chunk_text[i + 1] = " "
           /\ casefold(chunk_text[i + 2]) = "knowledge"
        \/ casefold(chunk_text[i]) = "required"
               /\ later_on_line(chunk_text, i, "understand")

\* the prerequisite pattern is tried first
content_type_prerequisites_first(chunk_text) ==
    IF prerequisite_pattern(chunk_text) THEN "prerequisites"
    ELSE IF practice_pattern(chunk_text) THEN "practice"
    ELSE "explanation"

\* build_metadata's content type
content_type(chunk_text) ==
    IF practice_pattern(chunk_text) THEN "practice"
    ELSE IF prerequisite_pattern(chunk_text) THEN "prerequisites"
    ELSE "explanation"

\* chunk_text[:60]
prefix60(chunk_text) ==
    SubSeq(chunk_text, 1, IF Len(chunk_text) < 60 THEN Len(chunk_text) ELSE 60)

\* an identifier that carries the time of the run
doc_id_dated(source_file, chunk_index, chunk_text) ==
    source_file \o <<"_">> \o str(chunk_index) \o <<"_">> \o prefix60(chunk_text)
        \o <<"_">> \o str(clock)

\* hashlib.md5(f"{source_file}_{chunk_index}_{chunk_text[:60]}").hexdigest(): the
\* digest is taken to be different for different strings, and the string stands for it
doc_id(source_file, chunk_index, chunk_text) ==
    source_file \o <<"_">> \o str(chunk_index) \o <<"_">> \o prefix60(chunk_text)

\* os.path.basename
basename(path) ==
    IF \E i \in 1..Len(path) : path[i] = "/"
    THEN SubSeq(path,
                1 + (CHOOSE i \in 1..Len(path) :
                         path[i] = "/" /\ \A j \in (i + 1)..Len(path) : path[j] # "/"),
                Len(path))
    ELSE path

build_metadata(chunk_text, chunk_index, start_page, source_file, topic, difficulty) ==
    [topic |-> topic_key(topic), difficulty |-> difficulty,
     content_type |-> content_type(chunk_text), source_file |-> basename(source_file),
     chunk_index |-> str(chunk_index), start_page |-> str(start_page),
     char_count |-> Len(chunk_text), last_updated |-> clock,
     doc_id |-> doc_id(source_file, chunk_index, chunk_text)]

\* no run of ingest is under way
NoRun == IF document = <<>> THEN TRUE ELSE document[1].stage \in {"done", "failed"}

\* the record of a run that has ended with the given error ("" if none), leaving the
\* given index
run_record(error, index) ==
    [pdf_path |-> document[1].pdf_path, pages |-> document[1].pages,
     topic |-> document[1].topic, difficulty |-> document[1].difficulty,
     failed_at |-> IF error = "" THEN "" ELSE document[1].stage,
     error |-> error, chunks |-> chunks, before |-> document[1].before, after |-> index]

\* raw_text = extract_text_from_pdf(pdf_path)
Extract(pdf_path, pages, topic, difficulty) ==
    /\ NoRun
    /\ Len(runs) < MaxRuns
    /\ document' = <<[pdf_path |-> pdf_path, pages |-> pages, topic |-> topic,
                      difficulty |-> difficulty, text |-> extract_text_from_pdf(pages),
                      max_chunk_size |-> max_chunk_size_default,
                      overlap |-> overlap_default, stage |-> "extracted",
                      error |-> "", before |-> collection]>>
    /\ chunks' = <<>>
    /\ UNCHANGED <<runs, storeVars, agentVars, kbVars>>

\* pdfplumber.open raises: the file is no PDF
ExtractFail(pdf_path, topic, difficulty) ==
    /\ NoRun
    /\ Len(runs) < MaxRuns
    /\ document' = <<[pdf_path |-> pdf_path, pages |-> <<>>, topic |-> topic,
                      difficulty |-> difficulty, text |-> <<>>,
                      max_chunk_size |-> max_chunk_size_default,
                      overlap |-> overlap_default, stage |-> "failed",
                      error |-> "PDFSyntaxError", before |-> collection]>>
    /\ chunks' = <<>>
    /\ runs' = Append(runs, [pdf_path |-> pdf_path, pages |-> <<>>, topic |-> topic,
                             difficulty |-> difficulty, failed_at |-> "start",
                             error |-> "PDFSyntaxError", chunks |-> <<>>,
                             before |-> collection, after |-> collection])
    /\ UNCHANGED <<storeVars, agentVars, kbVars>>

\* clean = clean_text(raw_text)
CleanText ==
    /\ document # <<>>
    /\ document[1].stage = "extracted"
    /\ document' = <<[document[1] EXCEPT !.text = clean_text(@), !.stage = "cleaned"]>>
    /\ UNCHANGED <<chunks, runs, storeVars, agentVars, kbVars>>

\* the index entries store_in_chromadb passes to collection.add
entries(chs) ==
    {[doc_id |-> chs[i].metadata.doc_id, document |-> chs[i].text,
      metadata |-> chs[i].metadata] : i \in 1..Len(chs)}

\* the identifier is in the index
known(id) == \E e \in collection : e.doc_id = id

\* the chunks with the metadata build_metadata gives them
enriched(chs, doc) ==
    [i \in 1..Len(chs) |->
        [text |-> chs[i].text, chunk_index |-> chs[i].chunk_index,
         start_page |-> chs[i].start_page,
         metadata |-> build_metadata(chs[i].text, chs[i].chunk_index, chs[i].start_page,
                                     doc.pdf_path, doc.topic, doc.difficulty)]]

\* every chunk is written to the index as soon as it is tagged
Enrich_storing ==
    /\ document # <<>>
    /\ document[1].stage = "chunked"
    /\ chunks' = enriched(chunks, document[1])
    /\ collection' = collection \cup entries(enriched(chunks, document[1]))
    /\ document' = <<[document[1] EXCEPT !.stage = "enriched"]>>
    /\ UNCHANGED <<runs, retrieval, storeVars, agentVars>>

\* chunk['metadata'] = build_metadata(...) for every chunk
Enrich ==
    /\ document # <<>>
    /\ document[1].stage = "chunked"
    /\ chunks' = enriched(chunks, document[1])
    /\ document' = <<[document[1] EXCEPT !.stage = "enriched"]>>
    /\ UNCHANGED <<runs, storeVars, agentVars, kbVars>>

\* embeddings = get_embeddings(texts)
Embed ==
    /\ document # <<>>
    /\ document[1].stage = "enriched"
    /\ document' = <<[document[1] EXCEPT !.stage = "embedded"]>>
    /\ UNCHANGED <<chunks, runs, storeVars, agentVars, kbVars>>

\* openai.embeddings.create raises
EmbedFail ==
    /\ document # <<>>
    /\ document[1].stage = "enriched"
    /\ document' = <<[document[1] EXCEPT !.stage = "failed", !.error = "OpenAIError"]>>
    /\ runs' = Append(runs, run_record("OpenAIError", collection))
    /\ UNCHANGED <<chunks, storeVars, agentVars, kbVars>>

\* store_in_chromadb, collection.add returns: the entries whose identifier is not in
\* the index are added, the others are left out
Store ==
    /\ document # <<>>
    /\ document[1].stage = "embedded"
    /\ collection' = collection \cup {e \in entries(chunks) : ~known(e.doc_id)}
    /\ document' = <<[document[1] EXCEPT !.stage = "stored"]>>
    /\ UNCHANGED <<chunks, runs, retrieval, storeVars, agentVars>>

\* store_in_chromadb, collection.add raises: it was given no chunk, or an identifier
\* that is in the index and the installed chromadb rejects such a batch
StoreFail ==
    /\ document # <<>>
    /\ document[1].stage = "embedded"
    /\ chunks = <<>> \/ \E e \in entries(chunks) : known(e.doc_id)
    /\ document' = <<[document[1] EXCEPT !.stage = "failed", !.error = "ValueError"]>>
    /\ runs' = Append(runs, run_record("ValueError", collection))
    /\ UNCHANGED <<chunks, collection, retrieval, storeVars, agentVars>>

\* the summary ingest prints: chunks[0] raises when there is no chunk
Summary ==
    /\ document # <<>>
    /\ document[1].stage = "stored"
    /\ LET error == IF chunks = <<>> THEN "IndexError" ELSE ""
       IN /\ document' = <<[document[1] EXCEPT
                               !.stage = IF error = "" THEN "done" ELSE "failed",
                               !.error = error]>>
          /\ runs' = Append(runs, run_record(error, collection))
    /\ UNCHANGED <<chunks, storeVars, agentVars, kbVars>>

IngestNext ==
    \/ NoRun /\ Tick
    \/ \E i \in Ingestions : Extract(i.pdf_path, i.pages, i.topic, i.difficulty)
    \/ ExtractFail(NoPdf.pdf_path, NoPdf.topic, NoPdf.difficulty)
    \/ CleanText
    \/ Chunk
    \/ Enrich
    \/ Embed
    \/ EmbedFail
    \/ Store
    \/ StoreFail
    \/ Summary

(***************************************************************************)
(* The agent loop (src/graph.py).                                          *)
(***************************************************************************)
\* external inputs in one behaviour
MaxInputs == 2
\* tool requests in one planner response
MaxToolCalls == 2
\* planner calls in one behaviour
MaxPlannerCalls == 4
\* planner turns that the graph's step limit lets a tool phase follow
MaxTurns == 2

\* app.invoke is called without a config: the graph library's step limit applies, an
\* odd number of steps (25 by default), so that a tool phase is always followed by a
\* planner turn
recursion_limit == 2 * MaxTurns + 1

END == "end"

Message(role, id, tool_calls, tool_call_id, status) ==
    [role |-> role, id |-> id, tool_calls |-> tool_calls, tool_call_id |-> tool_call_id,
     status |-> status]

\* SystemMessage(content=SYSTEM_PROMPT); a message is built without an id
SystemMessage == Message("system", 0, <<>>, 0, "")

HumanMessage == Message("human", 0, <<>>, 0, "")

\* the planner's response: its id and its tool requests' ids come from the planner
AIMessage(id, tool_calls) == Message("ai", id, tool_calls, 0, "")

ToolMessage(tool_call_id, status) == Message("tool", 0, <<>>, tool_call_id, status)

\* add_messages gives every message that has no id a fresh one
assign_ids(msgs, base) ==
    [i \in 1..Len(msgs) |-> IF msgs[i].id = 0 THEN [msgs[i] EXCEPT !.id = base + i] ELSE msgs[i]]

\* add_messages merges by id: a message whose id is in the list replaces that one, any
\* other is appended
RECURSIVE merge(_, _)
merge(left, right) ==
    IF right = <<>> THEN left
    ELSE LET m == Head(right)
         IN IF \E i \in 1..Len(left) : left[i].id = m.id
            THEN merge([i \in 1..Len(left) |-> IF left[i].id = m.id THEN m ELSE left[i]],
                       Tail(right))
            ELSE merge(Append(left, m), Tail(right))

\* a node's update is dropped: the channel is overwritten with it
add_messages_overwrite(left, right, base) == assign_ids(right, base)

\* messages: Annotated[list, add_messages]
add_messages(left, right, base) == merge(left, assign_ids(right, base))

\* [SystemMessage(content=SYSTEM_PROMPT)] + state["messages"]
planner_messages(state_messages) == <<SystemMessage>> \o state_messages

\* the update returns what the planner was given, too
agent_node_update_all(state_messages, response) ==
    planner_messages(state_messages) \o <<response>>

\* return {"messages": [response]}
agent_node_update(state_messages, response) == <<response>>

\* the condition the wrong way round
router_inverted(state_messages) ==
    LET last_message == state_messages[Len(state_messages)]
    IN IF last_message.tool_calls # <<>> THEN END ELSE "tools"

\* router: "tools" if the last message has tool calls, else END
router(state_messages) ==
    LET last_message == state_messages[Len(state_messages)]
    IN IF last_message.tool_calls # <<>> THEN "tools" ELSE END

\* the tool's exception is swallowed: the result does not say that it failed
tool_result_swallowed(tool_call_id, raised) == ToolMessage(tool_call_id, "success")

\* ToolNode's result for one request: the tool's output, or the description of the
\* exception it raised
tool_result(tool_call_id, raised) ==
    ToolMessage(tool_call_id, IF raised THEN "error" ELSE "success")

AgentInit ==
    /\ cli = "prompt"
    /\ conversation_history = <<>>
    /\ messages = <<>>
    /\ node = END
    /\ steps = 0
    /\ tool_outputs = <<>>
    /\ planner_input = <<>>
    /\ planner_calls = 0
    /\ exc = "none"
    /\ next_id = 0
    /\ inputs = 0
    /\ failed_tools = {}

Init == StoreInit /\ AgentInit /\ KBInit /\ IngestInit

\* one external input: the human message is appended to the history and app.invoke
\* starts the graph at its entry point with the history as the channel's input
Invoke ==
    /\ cli = "prompt"
    /\ inputs < MaxInputs
    /\ inputs' = inputs + 1
    /\ LET history == Append(conversation_history, HumanMessage)
       IN /\ messages' = add_messages(<<>>, history, next_id)
          /\ conversation_history' = assign_ids(history, next_id)
          /\ next_id' = next_id + Len(history)
    /\ cli' = "invoking"
    /\ node' = "agent"
    /\ steps' = 0
    /\ tool_outputs' = <<>>
    /\ UNCHANGED <<planner_input, planner_calls, exc, failed_tools, storeVars, kbVars, ingestVars>>

\* 'quit', 'exit' or 'q'
Quit ==
    /\ cli = "prompt"
    /\ cli' = "exited"
    /\ UNCHANGED <<conversation_history, messages, node, steps, tool_outputs, planner_input,
                   planner_calls, exc, next_id, inputs, failed_tools, storeVars, kbVars, ingestVars>>

\* agent_node and the conditional edge: the planner answers with k tool requests
AgentStep(k) ==
    /\ cli = "invoking"
    /\ node = "agent"
    /\ steps < recursion_limit
    /\ planner_calls < MaxPlannerCalls
    /\ planner_input' = planner_messages(messages)
    /\ planner_calls' = planner_calls + 1
    /\ LET response == AIMessage(next_id + 1, [j \in 1..k |-> next_id + 1 + j])
           update == agent_node_update(messages, response)
       IN /\ messages' = add_messages(messages, update, next_id + 1 + k)
          /\ next_id' = next_id + 1 + k + Len(update)
          /\ node' = router(messages')
          /\ tool_outputs' = [j \in 1..k |-> <<>>]
    /\ steps' = steps + 1
    /\ UNCHANGED <<cli, conversation_history, exc, inputs, failed_tools, storeVars, kbVars, ingestVars>>

\* the planner call fails and its caller gets the failure, too
AgentFail_retry ==
    /\ cli = "invoking"
    /\ node = "agent"
    /\ steps < recursion_limit
    /\ planner_calls + 1 < MaxPlannerCalls
    /\ planner_input' = planner_messages(messages)
    /\ planner_calls' = planner_calls + 2
    /\ exc' = "PlannerError"
    /\ messages' = add_messages(messages, <<AIMessage(next_id + 1, <<>>)>>, next_id + 1)
    /\ next_id' = next_id + 2
    /\ node' = END
    /\ UNCHANGED <<cli, conversation_history, steps, tool_outputs, inputs, failed_tools,
                   storeVars, kbVars, ingestVars>>

\* llm.invoke raises: nothing in agent_node, the graph or run_agent catches it
AgentFail ==
    /\ cli = "invoking"
    /\ node = "agent"
    /\ steps < recursion_limit
    /\ planner_calls < MaxPlannerCalls
    /\ planner_input' = planner_messages(messages)
    /\ planner_calls' = planner_calls + 1
    /\ exc' = "PlannerError"
    /\ cli' = "crashed"
    /\ UNCHANGED <<conversation_history, messages, node, steps, tool_outputs, next_id,
                   inputs, failed_tools, storeVars, kbVars, ingestVars>>

\* the tool node runs the tool of request j of the last AIMessage; the requests of one
\* response run in the pool and end in any order
ToolRun(j, raised) ==
    /\ cli = "invoking"
    /\ node = "tools"
    /\ steps < recursion_limit
    /\ j \in 1..Len(tool_outputs)
    /\ tool_outputs[j] = <<>>
    /\ LET request == messages[Len(messages)].tool_calls[j]
       IN /\ tool_outputs' = [tool_outputs EXCEPT ![j] = <<tool_result(request, raised)>>]
          /\ failed_tools' = IF raised THEN failed_tools \cup {request} ELSE failed_tools
    /\ UNCHANGED <<cli, conversation_history, messages, node, steps, planner_input,
                   planner_calls, exc, next_id, inputs, storeVars, kbVars, ingestVars>>

\* the tool node does not wait for every request: it returns the results it has
ToolJoin_early ==
    /\ cli = "invoking"
    /\ node = "tools"
    /\ steps < recursion_limit
    /\ \E j \in 1..Len(tool_outputs) : tool_outputs[j] # <<>>
    /\ LET done == SelectSeq(tool_outputs, LAMBDA o : o # <<>>)
           update == [j \in 1..Len(done) |-> done[j][1]]
       IN /\ messages' = add_messages(messages, update, next_id)
          /\ next_id' = next_id + Len(update)
    /\ tool_outputs' = <<>>
    /\ node' = "agent"
    /\ steps' = steps + 1
    /\ UNCHANGED <<cli, conversation_history, planner_input, planner_calls, exc, inputs,
                   failed_tools, storeVars, kbVars, ingestVars>>

\* every request has its result: the tool node returns them in request order and the
\* edge tools -> agent is taken
ToolJoin ==
    /\ cli = "invoking"
    /\ node = "tools"
    /\ steps < recursion_limit
    /\ \A j \in 1..Len(tool_outputs) : tool_outputs[j] # <<>>
    /\ LET update == [j \in 1..Len(tool_outputs) |-> tool_outputs[j][1]]
       IN /\ messages' = add_messages(messages, update, next_id)
          /\ next_id' = next_id + Len(update)
    /\ tool_outputs' = <<>>
    /\ node' = "agent"
    /\ steps' = steps + 1
    /\ UNCHANGED <<cli, conversation_history, planner_input, planner_calls, exc, inputs,
                   failed_tools, storeVars, kbVars, ingestVars>>

\* the step limit is reached with a node still to run: GraphRecursionError leaves
\* app.invoke, and run_agent does not catch it
RecursionError ==
    /\ cli = "invoking"
    /\ node # END
    /\ steps >= recursion_limit
    /\ exc' = "GraphRecursionError"
    /\ cli' = "crashed"
    /\ UNCHANGED <<conversation_history, messages, node, steps, tool_outputs, planner_input,
                   planner_calls, next_id, inputs, failed_tools, storeVars, kbVars, ingestVars>>

\* END: app.invoke returns the state; conversation_history = result["messages"]
Finish ==
    /\ cli = "invoking"
    /\ node = END
    /\ conversation_history' = messages
    /\ cli' = "prompt"
    /\ UNCHANGED <<messages, node, steps, tool_outputs, planner_input, planner_calls, exc,
                   next_id, inputs, failed_tools, storeVars, kbVars, ingestVars>>

AgentNext ==
    \/ Invoke
    \/ Quit
    \/ \E k \in 0..MaxToolCalls : AgentStep(k)
    \/ AgentFail
    \/ \E j \in 1..MaxToolCalls, raised \in BOOLEAN : ToolRun(j, raised)
    \/ ToolJoin
    \/ RecursionError
    \/ Finish

(***************************************************************************)
(* The Mastery Store's claims.                                             *)
(***************************************************************************)
IsPrefix(s, t) == Len(s) <= Len(t) /\ \A i \in 1..Len(s) : s[i] = t[i]

attempts_of(k) == IF k \in DOMAIN progress THEN progress[k].attempts ELSE 0

session_rows(k) == {r \in sessions : r.student_id = k[1] /\ r.topic = k[2]}

AllIdle == \A t \in Threads : call[t].pc = "idle"

\* the calls made so far were all for key k
only_key(k) == \A k2 \in Keys \ {k} : submitted[k2] = <<>>

\* C1: when a sequence of calls for one key, made one after another from an empty
\* store, has ended, the key's row holds the arithmetic mean of the submitted scores
\* as mastery_score and their number as attempts
C1_RunningMean ==
    \A k \in Keys :
        (AllIdle /\ only_key(k) /\ submitted[k] # <<>>) =>
            /\ k \in DOMAIN progress
            /\ progress[k].mastery_score = Mean(submitted[k])
            /\ progress[k].attempts = Len(submitted[k])

\* the same of the calls that returned: the row holds their mean and their number
ReturnedRunningMean ==
    \A k \in Keys :
        (AllIdle /\ returned[k] # <<>>) =>
            /\ k \in DOMAIN progress
            /\ progress[k].mastery_score = Mean(returned[k])
            /\ progress[k].attempts = Len(returned[k])

\* C2: for every key, attempts (0 without a row) is the number of study_sessions rows
\* of that student and topic
C2_AttemptsMatchSessions ==
    \A k \in Keys : attempts_of(k) = Cardinality(session_rows(k))

\* C3: no lost update: when all calls have ended, every key's attempts is the number
\* of calls for it that returned and its mastery_score is the mean of their scores
C3_NoLostUpdate ==
    AllIdle =>
        \A k \in Keys :
            returned[k] # <<>> =>
                /\ k \in DOMAIN progress
                /\ progress[k].attempts = Len(returned[k])
                /\ progress[k].mastery_score = Mean(returned[k])

\* C4: the upsert and the session insert of a call become visible together or not at
\* all: in every state readers see as many writes of student_progress as session rows
C4_AtomicWrites == upserts = Cardinality(sessions)

\* a call whose session insert was rejected after its upsert had run: the upsert is in
\* its open transaction only, the committed row is not the one it wrote
C4_Witness ==
    \E t \in Threads :
        /\ call[t].pc = "raised"
        /\ call[t].error = "IntegrityError"
        /\ call[t].pending_progress # <<>>
        /\ LET w == call[t].pending_progress[1]
           IN w.key \notin DOMAIN progress \/ progress[w.key] # w.row

(***************************************************************************)
(* The tool layer's claims.                                                *)
(***************************************************************************)
in_unit_interval(x) == RGeq(x, <<0, 1>>) /\ RGeq(<<1, 1>>, x)

\* the call of thread t has passed the tool's boundary: its body is running
in_body(t) == call[t].pc \in {"select", "upsert", "log", "commit"}

\* C12: a call with a score in [0,1], 0.0 and 1.0 included, is accepted; a call with
\* any other score is rejected with a validation error before the body runs, no step
\* of a rejected call changes student_progress or study_sessions, and no score outside
\* [0,1] is ever in a table row or in a running body
C12_ScoreValidated ==
    /\ [](/\ \A r \in sessions : in_unit_interval(r.score)
          /\ \A k \in DOMAIN progress : in_unit_interval(progress[k].mastery_score)
          /\ \A t \in Threads : in_body(t) => in_unit_interval(call[t].score))
    /\ [][\A t \in Threads :
             /\ (call[t].pc = "idle" /\ call'[t].pc # "idle") =>
                    IF in_unit_interval(call'[t].score)
                    THEN call'[t].pc = "select"
                    ELSE /\ call'[t].pc = "raised"
                         /\ call'[t].error = "ValidationError"
                         /\ UNCHANGED <<progress, sessions>>
             /\ (call[t].pc = "raised" /\ call[t].error = "ValidationError") =>
                    UNCHANGED <<progress, sessions>>
         ]_vars

\* score 1.5 is rejected after calls with the scores 0.0 and 1.0 were accepted and
\* have written their rows
C12_Witness ==
    /\ call[1].pc = "raised"
    /\ call[1].error = "ValidationError"
    /\ call[1].score = <<3, 2>>
    /\ \E r \in sessions : r.score = <<0, 1>>
    /\ \E r \in sessions : r.score = <<1, 1>>

\* the value thread t's last call returned is a confirmation of update_student_progress
is_confirmation(t) ==
    call[t].result # <<>> /\ call[t].result[1].tool = "update_student_progress"

\* C13: the confirmation a call returns reports "mastery achieved" exactly when the
\* mastery the call stored is >= 0.7 and "needs more practice" otherwise, together with
\* the stored mastery and attempts; for a fresh key, score 0.6 is confirmed with mastery
\* 0.60, attempts 1, "needs more practice", and a following score 1.0 with mastery
\* 0.80, attempts 2, "mastery achieved"
C13_ConfirmationStatus ==
    \A t \in {1} :
        is_confirmation(t) =>
            LET r == call[t].result[1]
                k == <<r.student_id, r.topic_key>>
            IN /\ k \in DOMAIN progress
               /\ r.status \in {"mastery achieved", "needs more practice"}
               /\ r.status = "mastery achieved" <=>
                      RGeq(progress[k].mastery_score, <<7, 10>>)
               /\ r.new_mastery = format_2f(progress[k].mastery_score)
               /\ r.new_attempts = progress[k].attempts
               /\ returned[k] = << <<3, 5>> >> =>
                      /\ r.new_mastery = 60
                      /\ r.new_attempts = 1
                      /\ r.status = "needs more practice"
               /\ returned[k] = << <<3, 5>>, <<1, 1>> >> =>
                      /\ r.new_mastery = 80
                      /\ r.new_attempts = 2
                      /\ r.status = "mastery achieved"

\* the confirmation of the second call of the scenario: 0.6, then 1.0
C13_Witness ==
    /\ is_confirmation(1)
    /\ returned[<<call[1].result[1].student_id, call[1].result[1].topic_key>>] =
           << <<3, 5>>, <<1, 1>> >>
    /\ call[1].result[1].status = "mastery achieved"

\* the value thread t's last call returned is a report of get_student_progress
is_report(t) ==
    call[t].result # <<>> /\ call[t].result[1].tool = "get_student_progress"

\* C14: get_student_progress for a key without a row returns the "new topic" report
\* with mastery 0.0 and attempts 0, raises nothing and creates nothing: the key is
\* still absent afterwards and both tables are unchanged
C14_AbsentKeyReport ==
    [][\A t \in {1} :
           (call'[t] # call[t] /\ call'[t].pc = "idle" /\ call'[t].result # <<>>
                /\ call'[t].result[1].tool = "get_student_progress") =>
               LET r == call'[t].result[1]
                   k == <<r.student_id, r.topic_key>>
               IN /\ UNCHANGED <<progress, sessions>>
                  /\ k \notin DOMAIN progress =>
                         /\ r.found = FALSE
                         /\ r.status = "new topic"
                         /\ r.mastery = 0
                         /\ r.attempts = 0
                         /\ k \notin DOMAIN progress'
      ]_vars

\* the "new topic" report for a key without a row, while another key has one
C14_Witness ==
    /\ is_report(1)
    /\ call[1].result[1].found = FALSE
    /\ <<call[1].result[1].student_id, call[1].result[1].topic_key>> \notin DOMAIN progress
    /\ progress # <<>>

\* lowercase, spaces replaced by underscores
Normal(topic) ==
    [i \in 1..Len(topic) |->
        CASE topic[i] = "A" -> "a" [] topic[i] = "B" -> "b" [] topic[i] = "C" -> "c"
          [] topic[i] = " " -> "_" [] OTHER -> topic[i]]

AllTopics == {a[2] : a \in Arguments} \cup KBTopics

\* C16: the tools and the ingestion normalize a topic with one function, lowercase with
\* spaces replaced by underscores, which is idempotent; two spellings with the same
\* normal form never give two rows, and get_student_progress under any spelling
\* reports the scores submitted under every spelling with the same normal form
C16_TopicNormalized ==
    /\ \A topic \in AllTopics :
           /\ topic_key(topic) = Normal(topic)
           /\ topic_key(topic_key(topic)) = topic_key(topic)
    /\ \A k1, k2 \in DOMAIN progress :
           (k1[1] = k2[1] /\ Normal(k1[2]) = Normal(k2[2])) => k1 = k2
    /\ \A t \in {1} :
           is_report(t) =>
               LET r == call[t].result[1]
                   same == {k \in Keys : k[1] = r.student_id /\ Normal(k[2]) = Normal(r.topic)}
               IN /\ r.found <=> \E k \in same : returned[k] # <<>>
                  /\ r.found => \A k \in same : r.attempts = Len(returned[k])

\* a report of the row of key (a, b_c), asked for under the spelling "B c"
C16_Witness ==
    /\ is_report(1)
    /\ call[1].result[1].found
    /\ call[1].result[1].topic = <<"B", " ", "c">>
    /\ call[1].result[1].topic_key = <<"b", "_", "c">>
    /\ call[1].result[1].attempts = 2

\* C17: every call with a valid score appends one study_sessions row: the append is
\* never rejected for a session id that is in the table, and when the calls have ended
\* every key has as many rows as calls were made for it
C17_SessionAlwaysAppended ==
    /\ \A t \in Threads : ~(call[t].pc = "raised" /\ call[t].error = "IntegrityError")
    /\ AllIdle => \A k \in Keys : Cardinality(session_rows(k)) = Len(submitted[k])

\* the key of the call thread t runs
key_of(t) == <<call[t].student_id, call[t].topic_key>>

\* C28: a step changes the Mastery Record of no key but that of the
\* update_student_progress call that commits in it, and changes or removes no row of
\* study_sessions; no step removes a Mastery Record or lowers its attempts
C28_UpdateFrame ==
    [][/\ \A k \in DOMAIN progress :
              /\ k \in DOMAIN progress'
              /\ progress'[k].attempts >= progress[k].attempts
              /\ progress'[k] # progress[k] =>
                     \E t \in Threads : call[t].pc = "commit" /\ k = key_of(t)
       /\ sessions \subseteq sessions']_vars

(***************************************************************************)
(* The chunker's claims.                                                   *)
(***************************************************************************)
chunked == document # <<>> /\ document[1].stage = "chunked"

\* text without its leading whitespace
lstrip(text) ==
    IF \A i \in 1..Len(text) : text[i] \in Whitespace THEN <<>>
    ELSE SubSeq(text,
                CHOOSE i \in 1..Len(text) :
                    text[i] \notin Whitespace /\ \A j \in 1..(i - 1) : text[j] \in Whitespace,
                Len(text))

\* the overlap prefix of chunk k: the last overlap characters of the buffer that was
\* sealed as chunk k - 1 (its text and the blank line after its last paragraph), as
\* far as they are not stripped from the front of chunk k
carried(k) ==
    IF k = 1 THEN <<>>
    ELSE LET buffer == chunks[k - 1].text \o <<"\n", "\n">>
             n == document[1].overlap
         IN lstrip(IF Len(buffer) > n THEN SubSeq(buffer, Len(buffer) - n + 1, Len(buffer))
                   ELSE buffer)

\* chunk k without its overlap prefix
core(k) == SubSeq(chunks[k].text, Len(carried(k)) + 1, Len(chunks[k].text))

\* the cores of the chunks from k on, each ended by a blank line
RECURSIVE cores_from(_)
cores_from(k) ==
    IF k > Len(chunks) THEN <<>> ELSE core(k) \o <<"\n", "\n">> \o cores_from(k + 1)

\* the paragraphs of document d from element i on, each ended by a blank line
RECURSIVE paragraphs_from(_, _)
paragraphs_from(d, i) ==
    IF i > Len(d) THEN <<>>
    ELSE (IF d[i] = 0 THEN <<>> ELSE paragraph_of(d, i) \o <<"\n", "\n">>)
             \o paragraphs_from(d, i + 1)

\* C18: no paragraph is lost: every chunk after the first starts with the overlap
\* prefix carried over from the chunk before it, and the chunks without these prefixes,
\* put together, are the paragraphs of the input, each once and in input order
C18_NoParagraphLost ==
    chunked =>
        /\ \A k \in 1..Len(chunks) : IsPrefix(carried(k), chunks[k].text)
        /\ cores_from(1) = paragraphs_from(document[1].source, 1)

\* three chunks or more, one of which starts with characters carried over
C18_Witness ==
    /\ chunked
    /\ Len(chunks) >= 3
    /\ \E k \in 2..Len(chunks) : carried(k) # <<>> /\ Len(core(k)) > 0

\* the page that was active for the first character of chunk k: the page of the
\* paragraph the character belongs to
first_char_page(k) ==
    LET c == chunks[k].text[1]
        i == CHOOSE j \in 1..Len(document[1].source) :
                 document[1].source[j] # 0 /\ Letters[j] = c
    IN page_of(document[1].source, i)

\* C19: the start_page of every chunk is not greater than the page that was active for
\* the chunk's first character
C19_StartPageNotLater ==
    chunked => \A k \in 1..Len(chunks) : chunks[k].start_page <= first_char_page(k)

\* C20: the document with one paragraph of 1200 characters on page 1 and one of 50
\* characters on page 2, chunked with max_chunk_size = 1000 and overlap = 150, gives
\* two chunks, both with start_page = 1
C20_TwoPageScenario ==
    (/\ chunked
     /\ document[1].source = <<0, 1200, 0, 50>>
     /\ document[1].max_chunk_size = max_chunk_size_default
     /\ document[1].overlap = overlap_default) =>
        /\ Len(chunks) = 2
        /\ chunks[1].start_page = 1
        /\ chunks[2].start_page = 1

\* the chunk text holds paragraph i of document d
holds(text, d, i) ==
    LET para == paragraph_of(d, i)
    IN \E p \in 1..(Len(text) - Len(para) + 1) :
           SubSeq(text, p, p + Len(para) - 1) = para

\* C27: a chunk whose text is longer than max_chunk_size holds a paragraph that is
\* itself longer than max_chunk_size
C27_ChunkWithinSize ==
    chunked =>
        \A k \in 1..Len(chunks) :
            Len(chunks[k].text) > document[1].max_chunk_size =>
                \E i \in 1..Len(document[1].source) :
                    /\ document[1].source[i] # 0
                    /\ Len(paragraph_of(document[1].source, i)) > document[1].max_chunk_size
                    /\ holds(chunks[k].text, document[1].source, i)

(***************************************************************************)
(* The ingestion pipeline's claims.                                        *)
(***************************************************************************)
\* the identifiers of the chunks of an ended run, in chunk order
ids_of(r) == [k \in 1..Len(r.chunks) |-> r.chunks[k].metadata.doc_id]

\* two runs of ingest on the same document with the same arguments
same_call(r1, r2) ==
    /\ r1.pdf_path = r2.pdf_path
    /\ r1.pages = r2.pages
    /\ r1.topic = r2.topic
    /\ r1.difficulty = r2.difficulty

\* C21: a run of ingest that repeats the run before it (same path, same document, same
\* topic and difficulty) gives every chunk the identifier the run before gave it; when
\* the run before has stored the document, it leaves the index with as many entries as
\* the run before left
C21_ReingestAddsNothing ==
    \A i \in 1..(Len(runs) - 1) :
        same_call(runs[i], runs[i + 1]) =>
            /\ ids_of(runs[i + 1]) = ids_of(runs[i])
            /\ runs[i].error = "" =>
                   Cardinality(runs[i + 1].after) = Cardinality(runs[i].after)

\* a document with a chunk has been ingested twice in a row, at different times, and
\* both runs have ended without error
C21_Witness ==
    \E i \in 1..(Len(runs) - 1) :
        /\ same_call(runs[i], runs[i + 1])
        /\ runs[i].error = ""
        /\ runs[i + 1].error = ""
        /\ runs[i].chunks # <<>>
        /\ runs[i].chunks[1].metadata.last_updated
               # runs[i + 1].chunks[1].metadata.last_updated

\* the run has called collection.add
reached_store(r) == r.failed_at \in {"", "embedded", "stored"}

\* the index entry of chunk c
entry_of(c) == [doc_id |-> c.metadata.doc_id, document |-> c.text, metadata |-> c.metadata]

\* C22: when a run stores a chunk whose identifier is in the index, the write is not
\* rejected, and after it the index entry of that identifier is the new chunk and no
\* other
C22_StoreReplaces ==
    \A i \in 1..Len(runs) :
        reached_store(runs[i]) =>
            \A k \in 1..Len(runs[i].chunks) :
                (\E e \in runs[i].before : e.doc_id = runs[i].chunks[k].metadata.doc_id) =>
                    /\ runs[i].error # "ValueError"
                    /\ {e \in runs[i].after :
                            e.doc_id = runs[i].chunks[k].metadata.doc_id}
                           = {entry_of(runs[i].chunks[k])}

\* C23: chunks of runs on different source files never have the same identifier
C23_SourcesNeverShareId ==
    \A i \in 1..Len(runs), j \in 1..Len(runs) :
        runs[i].pdf_path # runs[j].pdf_path =>
            \A k \in 1..Len(runs[i].chunks), l \in 1..Len(runs[j].chunks) :
                ids_of(runs[i])[k] # ids_of(runs[j])[l]

\* C24: a run whose chunk list is empty, and whose calls of the embedding service and
\* of the index take the empty lists without raising, ends without error and leaves
\* the index as it was
C24_EmptyRunEndsCleanly ==
    \A i \in 1..Len(runs) :
        (/\ runs[i].failed_at # "start"
         /\ runs[i].chunks = <<>>
         /\ runs[i].error \notin {"OpenAIError", "ValueError"}) =>
            /\ runs[i].error = ""
            /\ runs[i].after = runs[i].before

\* C25: as long as a run has not come to its storage stage the index is what it was
\* when the run began, and a run that fails in extraction or in embedding leaves the
\* index as it found it
C25_IndexWrittenLast ==
    /\ (IF document = <<>> THEN FALSE
        ELSE document[1].stage \in {"extracted", "cleaned", "chunked", "enriched",
                                    "embedded"}) =>
           collection = document[1].before
    /\ \A i \in 1..Len(runs) :
           runs[i].failed_at \in {"start", "enriched"} => runs[i].after = runs[i].before

\* the embedding of a document with a chunk has failed, after an earlier run had filled
\* the index with other chunks
C25_Witness ==
    \E i \in 1..Len(runs) :
        /\ runs[i].error = "OpenAIError"
        /\ runs[i].chunks # <<>>
        /\ runs[i].before # {}
        /\ \A e \in runs[i].before : e.doc_id # runs[i].chunks[1].metadata.doc_id

\* the chunks the ended runs have tagged
tagged == UNION {{r.chunks[k] : k \in 1..Len(r.chunks)} : r \in {runs[i] : i \in 1..Len(runs)}}

\* C26: a chunk's content_type is "practice" if a practice pattern matches its text,
\* else "prerequisites" if a prerequisite pattern matches it, else "explanation"; two
\* chunks with the same text have the same content_type, whatever their topic,
\* difficulty, index, page and source file
C26_ContentTypePriority ==
    /\ \A c \in tagged :
           c.metadata.content_type =
               IF practice_pattern(c.text) THEN "practice"
               ELSE IF prerequisite_pattern(c.text) THEN "prerequisites"
               ELSE "explanation"
    /\ \A c1 \in tagged, c2 \in tagged :
           c1.text = c2.text => c1.metadata.content_type = c2.metadata.content_type

\* a chunk that both patterns match has been tagged, and so has one that only a
\* prerequisite pattern matches
C26_Witness ==
    /\ \E c \in tagged : practice_pattern(c.text) /\ prerequisite_pattern(c.text)
    /\ \E c \in tagged : ~practice_pattern(c.text) /\ prerequisite_pattern(c.text)

(***************************************************************************)
(* The agent loop's claims.                                                *)
(***************************************************************************)
\* the index of the last assistant message of msgs, 0 if there is none
last_ai(msgs) ==
    LET S == {i \in 1..Len(msgs) : msgs[i].role = "ai"}
    IN IF S = {} THEN 0 ELSE CHOOSE i \in S : \A j \in S : j <= i

\* every tool request of the last assistant message has exactly one result after it
all_answered(msgs) ==
    LET a == last_ai(msgs)
    IN /\ a > 0
       /\ \A j \in 1..Len(msgs[a].tool_calls) :
              Cardinality({i \in (a + 1)..Len(msgs) :
                              /\ msgs[i].role = "tool"
                              /\ msgs[i].tool_call_id = msgs[a].tool_calls[j]}) = 1

\* the conversation state: the graph's channel during an invocation, run_agent's
\* history between invocations
ConvState == IF cli \in {"prompt", "exited"} THEN conversation_history ELSE messages

\* C5: a planner response without tool requests sends the loop to END and the planner
\* is not called again in that cycle; a response with tool requests sends it to the
\* tool node; and the planner is called only on a new input or when every request of
\* the last response has its result in the conversation state
C5_Routing ==
    [][ /\ (planner_calls' = planner_calls + 1 /\ exc' = "none") =>
               LET response == messages'[Len(messages')]
               IN /\ response.role = "ai"
                  /\ response.tool_calls = <<>> => node' = END
                  /\ response.tool_calls # <<>> => node' = "tools"
        /\ planner_calls' # planner_calls =>
               /\ node = "agent"
               /\ \/ messages[Len(messages)].role = "human"
                  \/ messages[Len(messages)].role = "tool" /\ all_answered(messages)
        /\ (cli = "invoking" /\ node = END) => planner_calls' = planner_calls
      ]_vars

\* back in PLANNING after a response with two tool requests, both results appended
C5_Witness ==
    /\ cli = "invoking"
    /\ node = "agent"
    /\ last_ai(messages) > 0
    /\ Len(messages[last_ai(messages)].tool_calls) = 2
    /\ Len(messages) = last_ai(messages) + 2

\* C6: an invocation that uses up its step budget ends with an outcome of its own,
\* "loop budget exceeded", not with a crash
C6_LoopBudgetOutcome == exc = "GraphRecursionError" => cli # "crashed"

error_result(m, c) == m.role = "tool" /\ m.tool_call_id = c /\ m.status = "error"

C8_PlannerFailurePropagates ==
    [][ /\ (exc = "none" /\ exc' = "PlannerError") =>
               /\ cli' = "crashed"
               /\ messages' = messages
               /\ planner_calls' = planner_calls + 1
        /\ exc = "PlannerError" =>
               UNCHANGED <<cli, messages, planner_calls, tool_outputs, failed_tools>>
      ]_vars

\* the planner failed in the second turn of a cycle, after a tool phase
C8_Witness ==
    /\ exc = "PlannerError"
    /\ cli = "crashed"
    /\ planner_calls >= 2
    /\ messages[Len(messages)].role = "tool"

\* C9: every step extends the conversation state: the sequence before the step is a
\* prefix of the sequence after it
C9_AppendOnly == [][IsPrefix(ConvState, ConvState')]_vars

\* the planner has answered the second external input, with the first cycle's tool
\* result still in the state before that input
C9_Witness ==
    /\ inputs = 2
    /\ cli = "invoking"
    /\ \E i, j \in 1..Len(messages) :
           i < j /\ messages[i].role = "tool" /\ messages[j].role = "human"
    /\ messages[Len(messages)].role = "ai"

no_system(msgs) == \A i \in 1..Len(msgs) : msgs[i].role # "system"

\* C10: every planner call is given the system instruction as first message followed
\* by the conversation state, and no message of the conversation state is the system
\* instruction
C10_SystemPromptNotPersisted ==
    /\ [](no_system(messages) /\ no_system(conversation_history))
    /\ [][ planner_calls' # planner_calls =>
               /\ planner_input'[1] = SystemMessage
               /\ Tail(planner_input') = messages
         ]_vars

\* the planner called in the second cycle, after an earlier cycle with a tool phase
C10_Witness ==
    /\ inputs = 2
    /\ planner_calls = 3
    /\ Len(planner_input) >= 5
    /\ planner_input[1] = SystemMessage

\* every tool result of msgs carries the id of a tool request of an assistant message
\* before it
results_keyed(msgs) ==
    \A i \in 1..Len(msgs) :
        msgs[i].role = "tool" =>
            \E a \in 1..(i - 1) :
                /\ msgs[a].role = "ai"
                /\ \E j \in 1..Len(msgs[a].tool_calls) :
                       msgs[a].tool_calls[j] = msgs[i].tool_call_id

\* C11: every tool result in the conversation state carries the id of a tool request
\* of an earlier assistant message, and when the loop is back at the planner after a
\* tool phase every request of the preceding assistant message has exactly one result
C11_ResultsKeyed ==
    /\ results_keyed(messages)
    /\ results_keyed(conversation_history)
    /\ (cli = "invoking" /\ node = "agent" /\ messages[Len(messages)].role # "human") =>
           /\ all_answered(messages)
           /\ Len(messages) =
                  last_ai(messages) + Len(messages[last_ai(messages)].tool_calls)

\* back at the planner after the second tool phase of a cycle, whose response had two
\* requests, with the results of the first phase earlier in the state
C11_Witness ==
    /\ cli = "invoking"
    /\ node = "agent"
    /\ planner_calls = 2
    /\ Len(messages[last_ai(messages)].tool_calls) = 2
    /\ \E i \in 1..(last_ai(messages) - 1) : messages[i].role = "tool"
    /\ Len(messages) = last_ai(messages) + 2

(***************************************************************************)
(* Specifications.                                                         *)
(***************************************************************************)
\* update_student_progress calls made one after another
SpecSeq == Init /\ [][SeqNext]_vars

\* update_student_progress calls made concurrently
SpecStore == Init /\ [][StoreNext]_vars

\* the tools of the Mastery Store, called one after another
SpecTools == Init /\ [][ToolsNext]_vars

\* the Knowledge Index, filled and queried
SpecKB == Init /\ [][KBNext]_vars

\* documents chunked one after another
SpecChunk == Init /\ [][ChunkNext]_vars

\* the Mastery Store an earlier process has left: _init_db keeps the tables it finds,
\* here with the rows of one call for ("a", "b_c") with score 1.0
StorePersisted ==
    LET k == << <<"a">>, <<"b", "_", "c">> >>
    IN /\ clock = 0
       /\ progress = (k :> [mastery_score |-> <<1, 1>>, attempts |-> 1, last_studied |-> -1])
       /\ sessions = {[session_id |-> session_id(k[1], k[2], -1), student_id |-> k[1],
                       topic |-> k[2], score |-> <<1, 1>>, timestamp |-> -1]}
       /\ lock = 0
       /\ call = [t \in Threads |-> IdleCall]
       /\ ncalls = 0
       /\ submitted = [k2 \in Keys |-> IF k2 = k THEN << <<1, 1>> >> ELSE <<>>]
       /\ returned = [k2 \in Keys |-> IF k2 = k THEN << <<1, 1>> >> ELSE <<>>]
       /\ upserts = 1

InitPersisted == StorePersisted /\ AgentInit /\ KBInit /\ IngestInit

\* calls from the pool's threads on a store that holds a record
SpecPersisted == InitPersisted /\ [][StoreNext]_vars

\* runs of the ingestion pipeline
SpecIngest == Init /\ [][IngestNext]_vars

\* the interactive agent loop
SpecAgent == Init /\ [][AgentNext]_vars

=============================================================================
